---------------------------- MODULE Spec2Model ----------------------------
(***************************************************************************)
(* Solar-Vision: the React front end (Index, ForecastForm,                 *)
(* ForecastResults), its static location lookup, and the forecast-to-      *)
(* prediction pipeline of the Flask back end.                              *)
(*                                                                         *)
(* Conventions.  A JavaScript string is a sequence of one-character        *)
(* strings.  A JavaScript value that may be a number, NaN or undefined is  *)
(* a record [t, v]: t is "num", "NaN" or "undefined" and v the number.     *)
(* Latitudes and longitudes are in 1e-4 degrees, acres in hundredths of an *)
(* acre, predicted kWh in tenths of a kWh; consumption is in whole kWh.    *)
(***************************************************************************)
EXTENDS Integers, Sequences, FiniteSets, TLC

VARIABLES
    currentView,  \* Index: "hero", "form" or "results"
    forecastData, \* Index: the data handed to ForecastResults, or NoData
    formData,     \* ForecastForm: its state while it is mounted
    results,      \* ForecastResults: the mounted instance and its state
    requests,     \* the fetchPrediction runs suspended at an await
    nextInst,     \* the number of the next ForecastResults instance
    lastSent,     \* the arguments of the latest call of fetch, or NoRequest
    last,         \* the latest handler that ran and what it did
    submitted,    \* the form data of the latest call of onSubmit, or NoData
    lkInput,      \* getCoordsFromLocationString: the argument `location`
    lkResult,     \* getCoordsFromLocationString: the value returned
    hourly,       \* WeatherAggregator.aggregate: the hourly samples given
    daily,        \* WeatherAggregator.aggregate: what it returned
    yields,       \* MonthlyEstimator.estimate: the daily yields given
    acres,        \* MonthlyEstimator.estimate: the land area given
    estimates     \* MonthlyEstimator.estimate: what it returned

appVars ==
    <<currentView, forecastData, formData, results, requests, nextInst,
      lastSent, last, submitted>>
lkVars == <<lkInput, lkResult>>
plVars == <<hourly, daily, yields, acres, estimates>>
vars == <<appVars, lkVars, plVars>>

(***************************************************************************)
(* JavaScript values                                                       *)
(***************************************************************************)
Num(n) == [t |-> "num", v |-> n]
NaN == [t |-> "NaN", v |-> 0]
Undefined == [t |-> "undefined", v |-> 0]
Pending == [t |-> "pending", v |-> 0]

IsNaN(x) == x.t # "num"

\* !x for a value that is a number, NaN or undefined
Falsy(x) == x.t # "num" \/ x.v = 0

\* x <= 0: false when x is NaN or undefined (undefined converts to NaN)
LeqZero(x) == x.t = "num" /\ x.v <= 0

\* x > 0: false when x is NaN or undefined
GtZero(x) == x.t = "num" /\ x.v > 0

(***************************************************************************)
(* JavaScript strings                                                      *)
(***************************************************************************)
LowerLetters ==
    << "a","b","c","d","e","f","g","h","i","j","k","l","m",
       "n","o","p","q","r","s","t","u","v","w","x","y","z" >>

UpperLetters ==
    << "A","B","C","D","E","F","G","H","I","J","K","L","M",
       "N","O","P","Q","R","S","T","U","V","W","X","Y","Z" >>

LetterIndex(letters, c) == CHOOSE i \in 1..Len(letters) : letters[i] = c

LowerChar(c) ==
    IF \E i \in 1..Len(UpperLetters) : UpperLetters[i] = c
    THEN LowerLetters[LetterIndex(UpperLetters, c)]
    ELSE c

UpperChar(c) ==
    IF \E i \in 1..Len(LowerLetters) : LowerLetters[i] = c
    THEN UpperLetters[LetterIndex(LowerLetters, c)]
    ELSE c

\* String.prototype.toLowerCase
ToLowerCase(s) == [i \in 1..Len(s) |-> LowerChar(s[i])]

ToUpperCase(s) == [i \in 1..Len(s) |-> UpperChar(s[i])]

WhiteSpace == {" ", "\t", "\n"}

RECURSIVE TrimStart(_)
TrimStart(s) ==
    IF Len(s) > 0 /\ s[1] \in WhiteSpace THEN TrimStart(Tail(s)) ELSE s

RECURSIVE TrimEnd(_)
TrimEnd(s) ==
    IF Len(s) > 0 /\ s[Len(s)] \in WhiteSpace
    THEN TrimEnd(SubSeq(s, 1, Len(s) - 1))
    ELSE s

\* String.prototype.trim
Trim(s) == TrimEnd(TrimStart(s))

\* String.prototype.includes
Includes(s, k) ==
    \E i \in 1..(Len(s) - Len(k) + 1) : SubSeq(s, i, i + Len(k) - 1) = k

(***************************************************************************)
(* Index.tsx: the location lookup                                          *)
(***************************************************************************)
Coords(la, lo) == [lat |-> Num(la), lon |-> Num(lo)]

\* The object literal locationLookup, its own properties in insertion order
\* (the order in which for...in enumerates string keys).
locationLookup ==
    << [key |-> <<"p","u","n","e">>,                      val |-> Coords(185204, 738567)],
       [key |-> <<"k","o","t","h","r","u","d">>,          val |-> Coords(185074, 738095)],
       [key |-> <<"h","i","n","j","e","w","a","d","i">>,  val |-> Coords(185912, 737389)],
       [key |-> <<"v","i","m","a","n"," ","n","a","g","a","r">>,
                                                          val |-> Coords(185679, 739143)],
       [key |-> <<"p","i","m","p","r","i">>,              val |-> Coords(186277, 738138)],
       [key |-> <<"c","h","i","n","c","h","w","a","d">>,  val |-> Coords(186277, 738138)],
       [key |-> <<"p","i","m","p","r","i","-","c","h","i","n","c","h","w","a","d">>,
                                                          val |-> Coords(186277, 738138)],
       [key |-> <<"h","a","d","a","p","s","a","r">>,      val |-> Coords(185089, 739244)],
       [key |-> <<"a","u","n","d","h">>,                  val |-> Coords(185529, 738091)],
       [key |-> <<"w","a","k","a","d">>,                  val |-> Coords(186015, 737663)],
       [key |-> <<"b","a","n","e","r">>,                  val |-> Coords(185590, 737798)],
       [key |-> <<"p","u","n","e"," ","s","t","a","t","i","o","n">>,
                                                          val |-> Coords(185283, 738754)],
       [key |-> <<"s","w","a","r","g","a","t","e">>,      val |-> Coords(185029, 738634)],
       [key |-> <<"k","h","a","r","a","d","i">>,          val |-> Coords(185528, 739268)],
       [key |-> <<"k","a","t","r","a","j">>,              val |-> Coords(184520, 738604)] >>

LookupKeys == { locationLookup[i].key : i \in 1..Len(locationLookup) }

OwnIndex(name) == CHOOSE i \in 1..Len(locationLookup) : locationLookup[i].key = name

\* locationLookup is a plain object, so a property read also finds what it
\* inherits from Object.prototype.  These are the names Object.prototype
\* defines; none is enumerable, so for...in does not visit them.
ObjectPrototypeProps ==
    { <<"c","o","n","s","t","r","u","c","t","o","r">>,
      <<"_","_","p","r","o","t","o","_","_">>,
      <<"t","o","S","t","r","i","n","g">>,
      <<"t","o","L","o","c","a","l","e","S","t","r","i","n","g">>,
      <<"v","a","l","u","e","O","f">>,
      <<"h","a","s","O","w","n","P","r","o","p","e","r","t","y">>,
      <<"i","s","P","r","o","t","o","t","y","p","e","O","f">>,
      <<"p","r","o","p","e","r","t","y","I","s","E","n","u","m","e","r","a","b","l","e">>,
      <<"_","_","d","e","f","i","n","e","G","e","t","t","e","r","_","_">>,
      <<"_","_","d","e","f","i","n","e","S","e","t","t","e","r","_","_">>,
      <<"_","_","l","o","o","k","u","p","G","e","t","t","e","r","_","_">>,
      <<"_","_","l","o","o","k","u","p","S","e","t","t","e","r","_","_">> }

\* An inherited member (a function, or Object.prototype itself): an object
\* with neither a lat nor a lon property.
InheritedMember == [lat |-> Undefined, lon |-> Undefined]

\* The property read locationLookup[name]: NoProperty when it is undefined.
NoProperty == [lat |-> Pending, lon |-> Pending]

PropertyRead(name) ==
    IF name \in LookupKeys THEN locationLookup[OwnIndex(name)].val
    ELSE IF name \in ObjectPrototypeProps THEN InheritedMember
    ELSE NoProperty

\* for (const key in locationLookup) if (normalizedLocation.includes(key)):
\* the index of the first key, in enumeration order, that the input contains;
\* 0 when the loop ends without returning.
FirstContainedKey(normalizedLocation) ==
    LET hits == { i \in 1..Len(locationLookup) :
                    Includes(normalizedLocation, locationLookup[i].key) }
    IN  IF hits = {} THEN 0
        ELSE CHOOSE i \in hits : \A j \in hits : i <= j

DefaultFallback == PropertyRead(<<"p","u","n","e">>)

\* getCoordsFromLocationString without its first step, the exact match
getCoordsFromLocationString_NoExactMatch(location) ==
    LET normalizedLocation == ToLowerCase(Trim(location))
        found == FirstContainedKey(normalizedLocation)
    IN  IF found # 0 THEN locationLookup[found].val ELSE DefaultFallback

getCoordsFromLocationString(location) ==
    LET normalizedLocation == ToLowerCase(Trim(location))
        exact == PropertyRead(normalizedLocation)
        found == FirstContainedKey(normalizedLocation)
    IN  IF exact # NoProperty THEN exact
        ELSE IF found # 0 THEN locationLookup[found].val
        ELSE DefaultFallback

(***************************************************************************)
(* Number parsing and formatting                                           *)
(***************************************************************************)
DigitChars == <<"0","1","2","3","4","5","6","7","8","9">>

IsDigit(c) == \E i \in 1..10 : DigitChars[i] = c

DigitValue(c) == (CHOOSE i \in 1..10 : DigitChars[i] = c) - 1

\* The number of decimal digits of s from position i on
RECURSIVE DigitRun(_, _)
DigitRun(s, i) ==
    IF i <= Len(s) /\ IsDigit(s[i]) THEN 1 + DigitRun(s, i + 1) ELSE 0

\* The value of the n decimal digits of s that start at position i
RECURSIVE DigitsValue(_, _, _)
DigitsValue(s, i, n) ==
    IF n = 0 THEN 0
    ELSE 10 * DigitsValue(s, i, n - 1) + DigitValue(s[i + n - 1])

SignLength(s) == IF Len(s) > 0 /\ s[1] \in {"+", "-"} THEN 1 ELSE 0

SignOf(s) == IF Len(s) > 0 /\ s[1] = "-" THEN -1 ELSE 1

\* parseFloat(value), in hundredths: leading white space, a sign, digits, a
\* point and digits; what follows is ignored; NaN when there is no digit.
\* Digits past the second decimal place are cut (the inputs have none), and
\* exponents are not read (the inputs have none).
ParseFloat(value) ==
    LET s == TrimStart(value)
        i == 1 + SignLength(s)
        n == DigitRun(s, i)
        dot == i + n <= Len(s) /\ s[i + n] = "."
        m == IF dot THEN DigitRun(s, i + n + 1) ELSE 0
        frac == IF m = 0 THEN 0
                ELSE IF m = 1 THEN 10 * DigitsValue(s, i + n + 1, 1)
                ELSE DigitsValue(s, i + n + 1, 2)
    IN  IF n + m = 0 THEN NaN
        ELSE Num(SignOf(s) * (100 * DigitsValue(s, i, n) + frac))

\* parseInt(value, 10): leading white space, a sign, digits; NaN when there
\* is no digit.
ParseInt(value) ==
    LET s == TrimStart(value)
        i == 1 + SignLength(s)
        n == DigitRun(s, i)
    IN  IF n = 0 THEN NaN ELSE Num(SignOf(s) * DigitsValue(s, i, n))

RECURSIVE NatToString(_)
NatToString(n) ==
    IF n < 10 THEN <<DigitChars[n + 1]>>
    ELSE NatToString(n \div 10) \o <<DigitChars[(n % 10) + 1]>>

\* String(n) for an integer n
NumberToString(n) == IF n < 0 THEN <<"-">> \o NatToString(-n) ELSE NatToString(n)

\* Math.round of a number in tenths: the nearest integer, halves upwards
MathRound(tenths) == (tenths + 5) \div 10

(***************************************************************************)
(* ForecastForm.tsx                                                        *)
(***************************************************************************)
InitialFormData ==
    [location |-> <<"P","u","n","e">>, acres |-> Num(0), consumption |-> Num(0)]

\* SubmitCondition without its test of the consumption
SubmitCondition_NoConsumption(fd) ==
    GtZero(fd.acres) /\ Trim(fd.location) # <<>>

\* handleSubmit's condition for calling onSubmit
SubmitCondition(fd) ==
    GtZero(fd.acres) /\ GtZero(fd.consumption) /\ Trim(fd.location) # <<>>

\* The submit button's `disabled`
ButtonDisabled(fd) ==
    ~(GtZero(fd.acres) /\ GtZero(fd.consumption) /\ Trim(fd.location) # <<>>)

\* The acres field's onChange: handleInputChange("acres", e.target.value)
AcresChange(fd, value) ==
    LET numberValue == ParseFloat(value)
    IN  [fd EXCEPT !.acres = IF IsNaN(numberValue) THEN Num(0) ELSE numberValue]

\* The consumption field's onChange:
\* handleInputChange("consumption", parseInt(e.target.value) || 0), where
\* handleInputChange parses its argument, converted to a string, again.
ConsumptionChange(fd, value) ==
    LET first == ParseInt(value)
        passed == IF Falsy(first) THEN 0 ELSE first.v
        numberValue == ParseInt(NumberToString(passed))
    IN  [fd EXCEPT !.consumption =
            IF IsNaN(numberValue) THEN Num(0) ELSE numberValue]

\* The location field's onChange: handleInputChange("location", e.target.value)
LocationChange(fd, value) == [fd EXCEPT !.location = value]

(***************************************************************************)
(* ForecastResults.tsx                                                     *)
(***************************************************************************)
Null == [t |-> "null", v |-> 0]
NullError == [t |-> "null", v |-> ""]
Message(text) == [t |-> "str", v |-> text]

NoData == [mounted |-> FALSE]
NoResults == [inst |-> 0]
NoRequest == [sent |-> FALSE]

InvalidAcresMessage == Message("Invalid input: Acres must be a positive number.")

apiUrl == "http://127.0.0.1:5000/predict"

\* InvalidAcres without its first test, !data.acres
InvalidAcres_LeqOnly(data) == LeqZero(data.acres)

\* if (!data.acres || data.acres <= 0)
InvalidAcres(data) == Falsy(data.acres) \/ LeqZero(data.acres)

\* const requestData = { latitude, longitude, acres }
RequestData(data) ==
    [latitude |-> data.latitude, longitude |-> data.longitude, acres |-> data.acres]

\* JSON.stringify of an object of numbers: a property whose value is
\* undefined is left out, and NaN is written as null.
JsonStringify(obj) ==
    [k \in {f \in DOMAIN obj : obj[f].t # "undefined"} |->
        IF obj[k].t = "NaN" THEN Null ELSE obj[k]]

\* The arguments of fetch(apiUrl, { method, headers, body })
FetchCall(data) ==
    [sent |-> TRUE, url |-> apiUrl, method |-> "POST",
     contentType |-> "application/json",
     body |-> JsonStringify(RequestData(data))]

\* The state of a ForecastResults that has just been mounted
MountedResults(inst) ==
    [inst |-> inst, effect |-> "pending", loading |-> TRUE,
     error |-> NullError, prediction |-> Null]

\* The three panels of the render
LoadingPanel == results.inst # 0 /\ results.loading
ErrorPanel ==
    results.inst # 0 /\ results.error.t = "str" /\ results.error.v # ""
        /\ ~results.loading
ResultsPanel ==
    results.inst # 0 /\ ~results.loading
        /\ ~(results.error.t = "str" /\ results.error.v # "")
        /\ results.prediction # Null

\* const actualOutput = prediction.predicted_kwh_month ?? 0 (in tenths)
actualOutput == IF results.prediction = Null THEN 0 ELSE results.prediction.v

\* {Math.round(actualOutput).toLocaleString()}: the number shown (whole kWh)
DisplayedOutput == MathRound(actualOutput)

\* catch (fetchErr): every value thrown in the try block is an Error
CaughtMessage(message) == Message("API Communication Error: " \o message)

\* `API request failed: ${response.status} ${response.statusText}`
StatusMessage(response) ==
    "API request failed: " \o ToString(response.status) \o " " \o response.statusText

\* ValidPrediction with only its first test, `result &&`
ValidPrediction_ResultOnly(body) == body.kind # "null"

\* if (result && typeof result.predicted_kwh_month === 'number' && !isNaN(...))
\* JSON text cannot denote NaN, so response.json() never yields one.
ValidPrediction(body) == body.kind = "number"

(***************************************************************************)
(* The /predict endpoint as the front end sees it                          *)
(***************************************************************************)
\* The bodies of a 2xx response: JSON with a numeric predicted_kwh_month (in
\* tenths of a kWh), JSON null, an object without the field, the field as a
\* string, and text that is not JSON.
OkBodies ==
    { [kind |-> "number", v |-> n] : n \in {0, 12345} }
    \cup { [kind |-> k, v |-> 0] : k \in {"null", "nofield", "string", "unparsable"} }

Responses ==
    { [ok |-> TRUE, status |-> 200, statusText |-> "OK", body |-> b] : b \in OkBodies }
    \cup { [ok |-> FALSE, status |-> 500, statusText |-> "INTERNAL SERVER ERROR",
            body |-> [kind |-> "error", v |-> 0]] }

NoResponse == [ok |-> FALSE, status |-> 0, statusText |-> "", body |-> [kind |-> "none", v |-> 0]]

\* What a run of fetchPrediction that got `response` does once the body is
\* read: the prediction it sets, or the message of the error it throws.
BodyOutcome(response) ==
    IF ~response.ok THEN [ok |-> FALSE, message |-> StatusMessage(response), v |-> 0]
    ELSE IF response.body.kind = "unparsable"
        THEN [ok |-> FALSE, message |-> "Unexpected token in JSON", v |-> 0]
    ELSE IF ValidPrediction(response.body)
        THEN [ok |-> TRUE, message |-> "", v |-> response.body.v]
    ELSE [ok |-> FALSE, message |-> "Invalid prediction format received from API.",
          v |-> 0]

\* Settled without the finally block after an error
Settled_NoFinally(state, outcome) ==
    IF outcome.ok
    THEN [state EXCEPT !.prediction = Num(outcome.v), !.loading = FALSE]
    ELSE [state EXCEPT !.error = CaughtMessage(outcome.message)]

\* Settled without setPrediction
Settled_NoSetPrediction(state, outcome) ==
    IF outcome.ok
    THEN [state EXCEPT !.loading = FALSE]
    ELSE [state EXCEPT !.error = CaughtMessage(outcome.message), !.loading = FALSE]

\* Settled with setLoading(false) in the catch block instead of a finally
Settled_LoadingClearedInCatch(state, outcome) ==
    IF outcome.ok
    THEN [state EXCEPT !.prediction = Num(outcome.v)]
    ELSE [state EXCEPT !.error = CaughtMessage(outcome.message), !.loading = FALSE]

\* Settled with setPrediction called before the test of the result
Settled_PredictionBeforeTest(state, outcome) ==
    IF outcome.ok
    THEN [state EXCEPT !.prediction = Num(outcome.v), !.loading = FALSE]
    ELSE [state EXCEPT !.prediction = Num(outcome.v),
                       !.error = CaughtMessage(outcome.message), !.loading = FALSE]

\* The updates of one continuation are rendered together (React batches
\* them), so no render sees the state between two of them.
\* The state updates at the end of a run: setPrediction on success, setError
\* in the catch block, setLoading(false) in the finally block.
Settled(state, outcome) ==
    IF outcome.ok
    THEN [state EXCEPT !.prediction = Num(outcome.v), !.loading = FALSE]
    ELSE [state EXCEPT !.error = CaughtMessage(outcome.message), !.loading = FALSE]


(***************************************************************************)
(* Index.tsx and the handlers of the three components                      *)
(***************************************************************************)
MaxRuns == 2

\* What the user types into the three fields
LocationInputs ==
    { <<"P","u","n","e">>,
      <<"C","o","n","s","t","r","u","c","t","o","r">>,
      <<" ">> }

AcresInputs == { <<>>, <<"2">>, <<"1",".","5">>, <<"-","1">> }

ConsumptionInputs == { <<>>, <<"5","0","0">> }

LookupIdle == lkInput = <<>> /\ lkResult = NoProperty

NotRun == [error |-> "not run"]

PipelineIdle ==
    /\ hourly = <<>>
    /\ daily = NotRun
    /\ yields = <<>>
    /\ acres = 0
    /\ estimates = <<>>

AppIdle ==
    /\ currentView = "hero"
    /\ forecastData = NoData
    /\ formData = InitialFormData
    /\ results = NoResults
    /\ requests = {}
    /\ nextInst = 1
    /\ lastSent = NoRequest
    /\ last = [act |-> "none"]
    /\ submitted = NoData

\* SolarHero's button: handleGetStarted; Index then mounts a ForecastForm
handleGetStarted ==
    /\ currentView = "hero"
    /\ currentView' = "form"
    /\ formData' = InitialFormData
    /\ last' = [act |-> "getStarted"]
    /\ UNCHANGED <<forecastData, results, requests, nextInst, lastSent,
                   submitted, lkVars, plVars>>

handleInputChange(field, value) ==
    /\ currentView = "form"
    /\ formData' =
        CASE field = "location" -> LocationChange(formData, value)
          [] field = "acres" -> AcresChange(formData, value)
          [] field = "consumption" -> ConsumptionChange(formData, value)
    /\ last' = [act |-> "inputChange"]
    /\ UNCHANGED <<currentView, forecastData, results, requests, nextInst,
                   lastSent, submitted, lkVars, plVars>>

\* handleFormSubmit's dataForResults
DataForResults(data) ==
    LET coords == getCoordsFromLocationString(data.location)
    IN  [mounted |-> TRUE,
         latitude |-> coords.lat,
         longitude |-> coords.lon,
         acres |-> data.acres,
         consumption |-> data.consumption,
         location |-> data.location]

\* The form's submit event: handleSubmit, which either calls onSubmit
\* (Index's handleFormSubmit; Index then replaces the form by a new
\* ForecastResults) or shows the alert.  The browser's own validation of the
\* fields is not modelled: the event may arrive in any state of the form.
handleSubmit ==
    /\ currentView = "form"
    /\ IF SubmitCondition(formData)
       THEN /\ nextInst <= MaxRuns
            /\ forecastData' = DataForResults(formData)
            /\ currentView' = "results"
            /\ results' = MountedResults(nextInst)
            /\ nextInst' = nextInst + 1
            /\ formData' = InitialFormData
            /\ submitted' = formData
            /\ last' = [act |-> "onSubmit"]
       ELSE /\ last' = [act |-> "alert"]
            /\ UNCHANGED <<forecastData, currentView, results, nextInst, formData,
                           submitted>>
    /\ UNCHANGED <<requests, lastSent, lkVars, plVars>>

\* useEffect: fetchPrediction up to its first await
fetchPrediction ==
    /\ results.inst # 0
    /\ results.effect = "pending"
    /\ LET reset == [results EXCEPT !.effect = "done", !.loading = TRUE,
                                    !.error = NullError, !.prediction = Null]
       IN  IF InvalidAcres(forecastData)
           THEN /\ results' = [reset EXCEPT !.error = InvalidAcresMessage,
                                            !.loading = FALSE]
                /\ last' = [act |-> "fetchPrediction", inst |-> results.inst,
                            fetched |-> FALSE, before |-> lastSent]
                /\ UNCHANGED <<requests, lastSent>>
           ELSE /\ results' = reset
                /\ lastSent' = FetchCall(forecastData)
                /\ requests' = requests \cup
                       {[inst |-> results.inst, phase |-> "fetch",
                         response |-> NoResponse]}
                /\ last' = [act |-> "fetchPrediction", inst |-> results.inst,
                            fetched |-> TRUE, before |-> lastSent]
    /\ UNCHANGED <<currentView, forecastData, formData, nextInst, submitted, lkVars, plVars>>

\* Apply with the state shared by every instance (a store outside the
\* component): the updates reach whichever instance is mounted.
Apply_AnyMounted(req, outcome) ==
    IF results.inst # 0 THEN Settled(results, outcome) ELSE results

\* The state updates of a run that ends reach the instance that started it;
\* when that instance is no longer mounted they are dropped.
Apply(req, outcome) ==
    IF results.inst = req.inst THEN Settled(results, outcome) ELSE results

\* What `last` records of a run that ended: how it ended when its instance
\* is mounted, only that it ended when the instance is gone.
Ended(req, cause, response) ==
    IF results.inst = req.inst
    THEN [act |-> "settled", inst |-> req.inst, cause |-> cause, response |-> response]
    ELSE [act |-> "dropped", inst |-> req.inst]

\* await fetch(...) rejects: the request failed on the network
FetchRejects(req) ==
    /\ req \in requests
    /\ req.phase = "fetch"
    /\ LET outcome == [ok |-> FALSE, message |-> "Failed to fetch", v |-> 0]
       IN  /\ results' = Apply(req, outcome)
           /\ last' = Ended(req, "rejected", NoResponse)
    /\ requests' = requests \ {req}
    /\ UNCHANGED <<currentView, forecastData, formData, nextInst, lastSent,
                   submitted, lkVars, plVars>>

\* await fetch(...) resolves with a response; the run goes on to read its
\* body (response.text() or response.json())
FetchResolves(req, response) ==
    /\ req \in requests
    /\ req.phase = "fetch"
    /\ requests' = (requests \ {req}) \cup
           {[req EXCEPT !.phase = "body", !.response = response]}
    /\ last' = [act |-> "response"]
    /\ UNCHANGED <<currentView, forecastData, formData, results, nextInst,
                   lastSent, submitted, lkVars, plVars>>

\* The body has been read: the rest of the try block, catch and finally
BodyRead(req) ==
    /\ req \in requests
    /\ req.phase = "body"
    /\ results' = Apply(req, BodyOutcome(req.response))
    /\ last' = Ended(req, "response", req.response)
    /\ requests' = requests \ {req}
    /\ UNCHANGED <<currentView, forecastData, formData, nextInst, lastSent,
                   submitted, lkVars, plVars>>

\* React runs the pending effect of a mounted component before it handles
\* the next click, so the button is not pressed before fetchPrediction starts.
\* "New Forecast" and "Go Back": handleBackToForm; Index unmounts the
\* ForecastResults and mounts a new ForecastForm
handleBackToForm ==
    /\ currentView = "results"
    /\ results.effect = "done"
    /\ currentView' = "form"
    /\ results' = NoResults
    /\ formData' = InitialFormData
    /\ last' = [act |-> "back"]
    /\ UNCHANGED <<forecastData, requests, nextInst, lastSent, submitted, lkVars, plVars>>

Init == AppIdle /\ LookupIdle /\ PipelineIdle

Next ==
    \/ handleGetStarted
    \/ \E value \in LocationInputs : handleInputChange("location", value)
    \/ \E value \in AcresInputs : handleInputChange("acres", value)
    \/ \E value \in ConsumptionInputs : handleInputChange("consumption", value)
    \/ handleSubmit
    \/ fetchPrediction
    \/ \E req \in requests : FetchRejects(req)
    \/ \E req \in requests, response \in Responses : FetchResolves(req, response)
    \/ \E req \in requests : BodyRead(req)
    \/ handleBackToForm

Spec == Init /\ [][Next]_vars


(***************************************************************************)
(* ForecastResults on its own: one instance mounted with props of any      *)
(* value its interface lets a parent pass, acres missing or NaN included.  *)
(***************************************************************************)
DataProps ==
    { [mounted |-> TRUE, latitude |-> c.lat, longitude |-> c.lon, acres |-> a,
       consumption |-> k, location |-> <<"P","u","n","e">>] :
        c \in {Coords(185204, 738567), InheritedMember},
        a \in {Undefined, NaN, Num(0), Num(-100), Num(150), Num(200)},
        k \in {Num(0), Num(500)} }

InitResults ==
    /\ currentView = "results"
    /\ forecastData \in DataProps
    /\ formData = InitialFormData
    /\ results = MountedResults(1)
    /\ requests = {}
    /\ nextInst = 2
    /\ lastSent = NoRequest
    /\ last = [act |-> "none"]
    /\ submitted = NoData
    /\ LookupIdle
    /\ PipelineIdle

NextResults ==
    \/ fetchPrediction
    \/ \E req \in requests : FetchRejects(req)
    \/ \E req \in requests, response \in Responses : FetchResolves(req, response)
    \/ \E req \in requests : BodyRead(req)

SpecResults == InitResults /\ [][NextResults]_vars

\* The promise of fetch settles: it rejects, or resolves with a response.
FetchSettles ==
    \E req \in requests :
        \/ FetchRejects(req)
        \/ \E response \in Responses : FetchResolves(req, response)

\* The promise of response.text() or response.json() settles.
BodySettles == \E req \in requests : BodyRead(req)

\* ForecastResults alone, with its progress: React runs the effect of a
\* mounted component, the request made by fetch settles, and so does the
\* reading of the body of a response that has arrived.
FairSpecResults ==
    /\ SpecResults
    /\ WF_vars(fetchPrediction)
    /\ WF_vars(FetchSettles)
    /\ WF_vars(BodySettles)

(***************************************************************************)
(* Properties of the front end                                             *)
(***************************************************************************)
\* C1: no request is sent with acres <= 0: a run of fetchPrediction whose
\* data.acres is missing, NaN, 0 or negative sets error to the invalid-acres
\* message and loading to false, and returns without calling fetch.
C1_NoRequestWithoutAcres ==
    /\ lastSent.sent =>
          "acres" \in DOMAIN lastSent.body /\ GtZero(lastSent.body.acres)
    /\ (last.act = "fetchPrediction" /\ ~GtZero(forecastData.acres)) =>
          /\ results.error = InvalidAcresMessage
          /\ ~results.loading
          /\ ~last.fetched
          /\ lastSent = last.before
          /\ requests = {}

C1_Witness ==
    /\ last.act = "fetchPrediction"
    /\ forecastData.acres = NaN
    /\ results.error = InvalidAcresMessage
    /\ ~lastSent.sent

\* C2: handleSubmit calls onSubmit only with acres > 0, consumption > 0 and
\* a location that is not blank, and shows the alert in every other state of
\* the form; the submit button is enabled in exactly the states in which
\* handleSubmit calls onSubmit.
C2_SubmitOnlyValidForm ==
    /\ last.act = "onSubmit" =>
          /\ GtZero(submitted.acres)
          /\ GtZero(submitted.consumption)
          /\ Trim(submitted.location) # <<>>
    /\ last.act = "alert" =>
          ~(GtZero(formData.acres) /\ GtZero(formData.consumption)
              /\ Trim(formData.location) # <<>>)
    /\ currentView = "form" =>
          (~ButtonDisabled(formData) <=> SubmitCondition(formData))

C2_Witness ==
    /\ last.act = "onSubmit"
    /\ submitted.acres = Num(150)
    /\ submitted.consumption = Num(500)
    /\ currentView = "results"

\* C3: every request sent is a POST to /predict whose JSON body has exactly
\* the fields latitude, longitude and acres: the acres submitted and the
\* coordinates getCoordsFromLocationString gives for the location submitted.
C3_RequestBody ==
    lastSent.sent =>
        /\ lastSent.method = "POST"
        /\ lastSent.url = apiUrl
        /\ DOMAIN lastSent.body = {"latitude", "longitude", "acres"}
        /\ lastSent.body.acres = submitted.acres
        /\ lastSent.body.latitude = getCoordsFromLocationString(submitted.location).lat
        /\ lastSent.body.longitude = getCoordsFromLocationString(submitted.location).lon

\* C7: a run whose request is rejected, or answered with a status outside
\* 2xx, ends with a message in error, no prediction and loading false: the
\* error panel is rendered and the results panel is not.
C7_FailureShowsError ==
    (last.act = "settled" /\ (last.cause = "rejected" \/ ~last.response.ok)) =>
        /\ results.error.t = "str" /\ results.error.v # ""
        /\ results.prediction = Null
        /\ ~results.loading
        /\ ErrorPanel /\ ~ResultsPanel /\ ~LoadingPanel

C7_Witness ==
    /\ last.act = "settled"
    /\ last.cause = "response"
    /\ last.response.status = 500
    /\ results.error =
          Message("API Communication Error: API request failed: 500 INTERNAL SERVER ERROR")
    /\ ErrorPanel

\* A 2xx response whose JSON has a numeric predicted_kwh_month has just
\* ended the run of the mounted instance.
GotPrediction ==
    /\ last.act = "settled"
    /\ last.cause = "response"
    /\ last.response.ok
    /\ last.response.body.kind = "number"

\* C8 as stated: after such a response the prediction is that value, error
\* is null, loading is false, and the number shown as estimated output is
\* that value.
C8_ShownIsValue ==
    GotPrediction =>
        /\ results.prediction = Num(last.response.body.v)
        /\ results.error = NullError
        /\ ~results.loading
        /\ ResultsPanel
        /\ 10 * DisplayedOutput = last.response.body.v

\* C8 as amended: after such a response the prediction is that value, error
\* is null, loading is false, and the number shown as estimated output is
\* that value rounded to the nearest integer.
C8_ShownIsRoundedValue ==
    GotPrediction =>
        /\ results.prediction = Num(last.response.body.v)
        /\ results.error = NullError
        /\ ~results.loading
        /\ ResultsPanel
        /\ actualOutput = last.response.body.v
        /\ DisplayedOutput = MathRound(last.response.body.v)

C8_Witness ==
    /\ GotPrediction
    /\ last.response.body.v = 12345
    /\ results.prediction = Num(12345)
    /\ DisplayedOutput = 1235
    /\ ResultsPanel

\* A 2xx response whose JSON is null, has no predicted_kwh_month, or has one
\* that is not a number has just ended the run of the mounted instance.
GotMalformedBody ==
    /\ last.act = "settled"
    /\ last.cause = "response"
    /\ last.response.ok
    /\ last.response.body.kind \in {"null", "nofield", "string"}

\* C11: a 2xx response whose JSON is null, lacks predicted_kwh_month or has
\* a predicted_kwh_month that is not a number is a failure: error is the
\* invalid-format message, the prediction stays null and loading is false.
C11_MalformedBodyIsFailure ==
    GotMalformedBody =>
        /\ results.error =
              Message("API Communication Error: Invalid prediction format received from API.")
        /\ results.prediction = Null
        /\ ~results.loading
        /\ ErrorPanel /\ ~ResultsPanel

C11_Witness ==
    /\ GotMalformedBody
    /\ last.response.status = 200
    /\ last.response.body.kind = "nofield"
    /\ results.error.t = "str"
    /\ results.prediction = Null
    /\ ~results.loading

\* A run of fetchPrediction has just reached its first await, or returned
\* at the acres guard: loading, error and prediction are as lines 35-43 set.
RunStarted ==
    last.act = "fetchPrediction" =>
        /\ results.prediction = Null
        /\ IF last.fetched
           THEN results.loading /\ results.error = NullError
           ELSE ~results.loading /\ results.error = InvalidAcresMessage

\* A run that has ended, on any path, has left loading false.
RunEnded ==
    (last.act = "settled" \/ (last.act = "fetchPrediction" /\ ~last.fetched)) =>
        ~results.loading

C13_ExactlyOnePanel ==
    results.inst # 0 =>
        /\ \/ LoadingPanel /\ ~ErrorPanel /\ ~ResultsPanel
           \/ ~LoadingPanel /\ ErrorPanel /\ ~ResultsPanel
           \/ ~LoadingPanel /\ ~ErrorPanel /\ ResultsPanel
        /\ ~(results.error # NullError /\ results.prediction # Null)
        /\ ~(~results.loading /\ results.error = NullError
                /\ results.prediction = Null)

C13_Witness ==
    /\ results.inst # 0
    /\ results.effect = "done"
    /\ results.prediction = Num(0)
    /\ results.error = NullError
    /\ ResultsPanel /\ ~LoadingPanel /\ ~ErrorPanel

\* The results view after its effect has run: its request was issued for
\* the forecastData shown, it is loading exactly while that request is in
\* flight, and a run recorded as settled is the run of the mounted instance.
OwnRequest ==
    /\ (results.inst # 0 /\ results.effect = "done") =>
          /\ lastSent = FetchCall(forecastData)
          /\ results.loading <=> (\E req \in requests : req.inst = results.inst)
    /\ last.act = "settled" => last.inst = results.inst

\* A step in which the run of another instance ends leaves the state of the
\* results view as it is, and a step that changes the state of the results
\* view after its effect has run ends the request of that very instance.
OwnRequestOnly ==
    /\ \A req \in requests :
          (req.inst # results.inst /\ requests' = requests \ {req}) =>
              results' = results
    /\ (results.inst # 0 /\ results.effect = "done"
          /\ results'.inst = results.inst /\ results' # results) =>
              \E req \in requests :
                  req.inst = results.inst /\ requests' = requests \ {req}

\* C14: in the app composed by Index, whatever the interleaving of submit,
\* back, re-submit and responses, the prediction, error and loading flag of
\* the results view come from the request issued for the forecastData shown:
\* a late response to the request of an earlier submission changes none.
C14_NoLateResponse ==
    /\ []OwnRequest
    /\ [][OwnRequestOnly]_vars

\* The request of the first submission has ended while the results view of
\* the second is waiting for its own.
C14_Witness ==
    /\ last = [act |-> "dropped", inst |-> 1]
    /\ currentView = "results"
    /\ results.inst = 2
    /\ results.effect = "done"
    /\ results.loading
    /\ \E req \in requests : req.inst = 2

(***************************************************************************)
(* The lookup on its own: one call of getCoordsFromLocationString on a     *)
(* location string a user can type.                                        *)
(***************************************************************************)
MaxWords == 2

OtherWords ==
    { <<"m","u","m","b","a","i">>,
      <<"c","o","n","s","t","r","u","c","t","o","r">>,
      <<"t","o","S","t","r","i","n","g">>,
      <<"_","_","p","r","o","t","o","_","_">> }

Words == LookupKeys \cup OtherWords

RECURSIVE JoinWords(_)
JoinWords(ws) ==
    IF Len(ws) = 1 THEN ws[1]
    ELSE ws[1] \o <<",", " ">> \o JoinWords(Tail(ws))

\* The first letter of every word in upper case, as in "Kothrud, Pune".
TitleCase(s) ==
    [i \in 1..Len(s) |->
        IF i = 1 \/ s[i - 1] = " " THEN UpperChar(s[i]) ELSE s[i]]

Styled(style, s) ==
    CASE style = "typed" -> s
      [] style = "upper" -> ToUpperCase(s)
      [] style = "title" -> TitleCase(s)

Padded(pad, s) == IF pad THEN <<" ">> \o s \o <<"\t", " ">> ELSE s

LookupInputs ==
    { Padded(pad, Styled(style, JoinWords(ws))) :
        pad \in BOOLEAN,
        style \in {"typed", "upper", "title"},
        ws \in UNION { [1..n -> Words] : n \in 1..MaxWords } }
    \cup { <<>>, <<" ">> }

Lookup ==
    /\ lkResult = NoProperty
    /\ lkResult' = getCoordsFromLocationString(lkInput)
    /\ UNCHANGED <<lkInput, appVars, plVars>>

InitLookup ==
    AppIdle /\ PipelineIdle /\ lkInput \in LookupInputs /\ lkResult = NoProperty

NextLookup == Lookup

SpecLookup == InitLookup /\ [][NextLookup]_vars

\* The input after location.trim().toLowerCase()
Normalized == ToLowerCase(Trim(lkInput))

Returned == lkResult # NoProperty

KeyCoords(k) == locationLookup[OwnIndex(k)].val

Kothrud == <<"k","o","t","h","r","u","d">>
Pune == <<"p","u","n","e">>

\* C4: an input that is no key itself but contains a neighbourhood key (a key
\* other than the city-wide 'pune') gets the coordinates of a neighbourhood
\* it contains; "Kothrud, Pune" gets the 'kothrud' entry.
C4_ContainedNeighbourhood ==
    (Returned /\ Normalized \notin LookupKeys
        /\ \E k \in LookupKeys \ {Pune} : Includes(Normalized, k))
    => /\ \E k \in LookupKeys \ {Pune} :
            Includes(Normalized, k) /\ lkResult = KeyCoords(k)
       /\ (Normalized = Kothrud \o <<",", " ">> \o Pune
             => lkResult = Coords(185074, 738095))

\* C5: an input that is a key after trimming and lower-casing gets exactly
\* that key's entry, whatever shorter keys it contains.
C5_ExactMatchWins ==
    (Returned /\ Normalized \in LookupKeys) => lkResult = KeyCoords(Normalized)

C5_Witness ==
    /\ Returned
    /\ lkInput = <<"P","u","n","e"," ","S","t","a","t","i","o","n">>
    /\ lkResult = Coords(185283, 738754)

\* C6: an input that neither is nor contains a key gets the default Pune
\* coordinates (18.5204, 73.8567).
C6_DefaultPune ==
    (Returned /\ Normalized \notin LookupKeys
        /\ \A k \in LookupKeys : ~Includes(Normalized, k))
    => lkResult = Coords(185204, 738567)

(***************************************************************************)
(* The forecast-to-prediction pipeline of the back end.  Quantities are    *)
(* exact fractions [n, d] in lowest terms with d > 0.                      *)
(***************************************************************************)
RECURSIVE GCD(_, _)
GCD(a, b) == IF b = 0 THEN a ELSE GCD(b, a % b)

Abs(n) == IF n < 0 THEN -n ELSE n

Rat(n, d) ==
    LET g == GCD(Abs(n), d) IN [n |-> n \div g, d |-> d \div g]

RatAdd(x, y) == Rat(x.n * y.d + y.n * x.d, x.d * y.d)

RatMul(x, y) == Rat(x.n * y.n, x.d * y.d)

\* x / k for an integer k > 0
RatOver(x, k) == Rat(x.n, x.d * k)

MaxDays == 3

\* 4.1 WeatherAggregator: the samples in order, cut into runs of one date
RECURSIVE GroupByDate(_, _)
GroupByDate(samples, groups) ==
    IF samples = <<>> THEN groups
    ELSE LET s == Head(samples)
             k == Len(groups)
         IN  IF k > 0 /\ groups[k].date = s.timestamp.date
             THEN GroupByDate(Tail(samples),
                     [groups EXCEPT ![k].samples = Append(@, s)])
             ELSE GroupByDate(Tail(samples),
                     Append(groups, [date |-> s.timestamp.date, samples |-> <<s>>]))

RECURSIVE SumTemperature(_)
SumTemperature(samples) ==
    IF samples = <<>> THEN 0
    ELSE Head(samples).ambient_temperature + SumTemperature(Tail(samples))

RECURSIVE SumIrradiance(_)
SumIrradiance(samples) ==
    IF samples = <<>> THEN 0
    ELSE Head(samples).irradiance + SumIrradiance(Tail(samples))

\* One DailyWeatherFeature: the mean of the day's temperatures, and the
\* day's hourly irradiance (W/m2) times one hour, over 1000, summed (kWh/m2)
DailyWeatherFeature(group) ==
    [date |-> group.date,
     mean_temperature |-> Rat(SumTemperature(group.samples), Len(group.samples)),
     irradiance_energy |-> Rat(SumIrradiance(group.samples), 1000)]

\* aggregate that leaves out the days with fewer than 24 samples
aggregate_FullDaysOnly(samples) ==
    IF samples = <<>> THEN [error |-> "EmptyForecastError", days |-> <<>>]
    ELSE LET groups == SelectSeq(GroupByDate(samples, <<>>),
                                 LAMBDA g : Len(g.samples) = 24)
         IN  [error |-> "none",
              days |-> [i \in 1..Len(groups) |-> DailyWeatherFeature(groups[i])]]

aggregate(samples) ==
    IF samples = <<>> THEN [error |-> "EmptyForecastError", days |-> <<>>]
    ELSE LET groups == GroupByDate(samples, <<>>)
         IN  [error |-> "none",
              days |-> [i \in 1..Len(groups) |-> DailyWeatherFeature(groups[i])]]

\* 4.4 MonthlyEstimator
RECURSIVE SumYield(_)
SumYield(daily_yields) ==
    IF daily_yields = <<>> THEN Rat(0, 1)
    ELSE RatAdd(Head(daily_yields).kwh_per_acre, SumYield(Tail(daily_yields)))

\* estimate that does not scale by the land area
estimate_AcresDropped(daily_yields, area) ==
    IF daily_yields = <<>>
    THEN [error |-> "EmptyForecastError", predicted_kwh_month |-> Rat(0, 1)]
    ELSE LET avg_daily == RatOver(SumYield(daily_yields), Len(daily_yields))
         IN  [error |-> "none",
              predicted_kwh_month |-> RatMul(avg_daily, Rat(304, 10))]

estimate(daily_yields, area) ==
    IF daily_yields = <<>>
    THEN [error |-> "EmptyForecastError", predicted_kwh_month |-> Rat(0, 1)]
    ELSE LET avg_daily == RatOver(SumYield(daily_yields), Len(daily_yields))
         IN  [error |-> "none",
              predicted_kwh_month |-> RatMul(RatMul(avg_daily, area), Rat(304, 10))]

(***************************************************************************)
(* The aggregator on its own                                               *)
(***************************************************************************)
\* The weather of one day: clear and constant, dark and constant, or rising
\* through the day
DayWeather(kind, hour) ==
    CASE kind = "clear" -> [ambient_temperature |-> 28, irradiance |-> 500]
      [] kind = "dark"  -> [ambient_temperature |-> 20, irradiance |-> 0]
      [] kind = "rising" -> [ambient_temperature |-> 10 + hour, irradiance |-> 40 * hour]

\* The first `count` hours of day `date`
DaySamples(date, count, kind) ==
    [i \in 1..count |->
        [timestamp |-> [date |-> date, hour |-> i - 1],
         ambient_temperature |-> DayWeather(kind, i - 1).ambient_temperature,
         irradiance |-> DayWeather(kind, i - 1).irradiance]]

\* A day of the horizon has no sample, one, all but one, or all 24
DayShapes ==
    { [count |-> c, kind |-> k] :
        c \in {0, 1, 23, 24}, k \in {"clear", "dark", "rising"} }

RECURSIVE Horizon(_, _)
Horizon(shapes, date) ==
    IF date > Len(shapes) THEN <<>>
    ELSE DaySamples(date, shapes[date].count, shapes[date].kind)
            \o Horizon(shapes, date + 1)

HourlyInputs == { Horizon(shapes, 1) : shapes \in [1..MaxDays -> DayShapes] }

InitAggregate ==
    /\ AppIdle
    /\ LookupIdle
    /\ hourly \in HourlyInputs
    /\ daily = NotRun
    /\ yields = <<>>
    /\ acres = 0
    /\ estimates = <<>>

Aggregate ==
    /\ daily = NotRun
    /\ daily' = aggregate(hourly)
    /\ UNCHANGED <<hourly, yields, acres, estimates, appVars, lkVars>>

NextAggregate == Aggregate

SpecAggregate == InitAggregate /\ [][NextAggregate]_vars

(***************************************************************************)
(* The estimator on its own                                                *)
(***************************************************************************)
YieldValues == { Rat(0, 1), Rat(20, 1), Rat(155, 10) }

AcresValues == { Rat(5, 1), Rat(1, 2), Rat(3, 2) }

YieldInputs ==
    UNION { { [i \in 1..n |-> [date |-> i, kwh_per_acre |-> ys[i]]] :
                ys \in [1..n -> YieldValues] } : n \in 0..MaxDays }

InitEstimate ==
    /\ AppIdle
    /\ LookupIdle
    /\ hourly = <<>>
    /\ daily = NotRun
    /\ yields \in YieldInputs
    /\ acres \in AcresValues
    /\ estimates = <<>>

\* estimate(yields, acres)
Estimate ==
    /\ estimates = <<>>
    /\ estimates' = <<estimate(yields, acres)>>
    /\ UNCHANGED <<hourly, daily, yields, acres, appVars, lkVars>>

\* estimate(yields, 2 * acres), the yields kept
EstimateDoubled ==
    /\ Len(estimates) = 1
    /\ estimates' = Append(estimates, estimate(yields, RatMul(Rat(2, 1), acres)))
    /\ UNCHANGED <<hourly, daily, yields, acres, appVars, lkVars>>

NextEstimate == Estimate \/ EstimateDoubled

SpecEstimate == InitEstimate /\ [][NextEstimate]_vars

(***************************************************************************)
(* Properties of the pipeline                                              *)
(***************************************************************************)
RECURSIVE SumOver(_, _)
SumOver(f, S) ==
    IF S = {} THEN 0
    ELSE LET i == CHOOSE j \in S : TRUE IN f[i] + SumOver(f, S \ {i})

\* C9: the estimate is mean(kwh_per_acre) * acres * 30.4, and the estimate
\* for twice the acres is twice the estimate, the yields kept.
C9_LinearInAcres ==
    (Len(estimates) = 2 /\ yields # <<>>) =>
        LET one == estimates[1].predicted_kwh_month
            two == estimates[2].predicted_kwh_month
            num == [i \in 1..Len(yields) |->
                      yields[i].kwh_per_acre.n * (10 \div yields[i].kwh_per_acre.d)]
        IN  /\ estimates[1].error = "none" /\ estimates[2].error = "none"
            \* num is the yields in tenths: 10 * 10 * days * estimate against
            \* sum * 304 * acres
            /\ one.n * 100 * Len(yields) * acres.d
                 = SumOver(num, 1..Len(yields)) * 304 * acres.n * one.d
            /\ two.n * one.d = 2 * one.n * two.d

C9_Witness ==
    /\ Len(estimates) = 2
    /\ yields = <<[date |-> 1, kwh_per_acre |-> Rat(20, 1)]>>
    /\ acres = Rat(5, 1)
    /\ estimates[1].predicted_kwh_month = Rat(3040, 1)
    /\ estimates[2].predicted_kwh_month = Rat(6080, 1)

DatesPresent == { hourly[i].timestamp.date : i \in 1..Len(hourly) }

SamplesOn(date) == { i \in 1..Len(hourly) : hourly[i].timestamp.date = date }

\* C10: from a sequence that is not empty the aggregation returns one record
\* for each date present, partial days included, in the order of the dates,
\* each with the mean of the day's temperatures and the sum of the day's
\* hourly irradiance over 1000.
C10_OneRecordPerDate ==
    (daily # NotRun /\ hourly # <<>>) =>
        /\ daily.error = "none"
        /\ Len(daily.days) = Cardinality(DatesPresent)
        /\ { daily.days[i].date : i \in 1..Len(daily.days) } = DatesPresent
        /\ \A i, j \in 1..Len(daily.days) :
              i < j => daily.days[i].date < daily.days[j].date
        /\ \A i \in 1..Len(daily.days) :
              LET on == SamplesOn(daily.days[i].date)
                  temp == [k \in 1..Len(hourly) |-> hourly[k].ambient_temperature]
                  irr == [k \in 1..Len(hourly) |-> hourly[k].irradiance]
              IN  /\ daily.days[i].mean_temperature.n * Cardinality(on)
                        = SumOver(temp, on) * daily.days[i].mean_temperature.d
                  /\ daily.days[i].irradiance_energy.n * 1000
                        = SumOver(irr, on) * daily.days[i].irradiance_energy.d

\* A full day of 28 degrees and 500 W/m2 (12 kWh/m2) after a day of one
\* sample and before a day of 23
C10_Witness ==
    /\ daily # NotRun
    /\ Len(daily.days) = 3
    /\ Cardinality(SamplesOn(1)) = 1
    /\ Cardinality(SamplesOn(3)) = 23
    /\ daily.days[2] = [date |-> 2, mean_temperature |-> Rat(28, 1),
                        irradiance_energy |-> Rat(12, 1)]

=============================================================================
